---- MODULE Spec2Model ----
(***************************************************************************)
(* Model of sqlite-stddev-extension.c: the WindowStatsData accumulator     *)
(* (a growable circular buffer with running sum and sum of squares), the   *)
(* SQLite callbacks that drive it (xStep, xInverse, xValue, xFinal,        *)
(* xDestroy) and the heap blocks it allocates.                             *)
(*                                                                         *)
(* Doubles are carried in one of two arithmetics.  In "exact", sum,        *)
(* sum_sq and the stored values are integers and the derived statistics    *)
(* exact fractions: the inputs are small integers, for which the double    *)
(* additions of the code are exact.  In "binary64", every double is an     *)
(* IEEE 754 binary64 value and every operation rounds as the hardware      *)
(* does, overflow to an infinity and NaN included: the inputs are decimal  *)
(* fractions such as 0.1, and values whose square is out of range.         *)
(***************************************************************************)
EXTENDS Integers, Sequences, FiniteSets, TLC

\* ---------------------------------------------------------------------
\* Program constants
\* ---------------------------------------------------------------------
INITIAL_CAPACITY == 100
CAPACITY_GROWTH_FACTOR == 2
MIN_COUNT_POPULATION == 1
MIN_COUNT_SAMPLE == 2

\* The NULL pointer; heap blocks are numbered from 1.
NULLPTR == 0
\* The application-data pointer given at registration (fifth argument of
\* sqlite3_create_window_function); SQLite hands it to xDestroy.
PAPP == NULLPTR

\* ---------------------------------------------------------------------
\* Bounds of the model
\* ---------------------------------------------------------------------
\* The values a row may carry once the leading rows have been stepped.
Values == {-2, 3}
\* Number of leading rows of a long partition; they carry RowValue(i).
Lead == 99
\* Number of rows with freely chosen values that may be stored.
MaxRows == 3
\* Number of values that may be evicted.
MaxEvicts == 2

\* The value of the i-th leading row (0-based) of a long partition.
RowValue(i) == i % 10

\* A buffer cell is <<v>> once the double v has been written to it, and
\* Uninit as malloc returned it.
Uninit == <<>>

VARIABLES
    has_ctx,   \* sqlite3_aggregate_context has allocated the (zeroed) context
    ctx,       \* the WindowStatsData struct
    heap,      \* heap[p]: the block malloc returned as pointer p
    phase,     \* "active", "ended" (context released), "closed" (db closed)
    out,       \* what the last callback reported to SQLite
    lead,      \* number of leading rows with fixed values in this partition
    nrows,     \* values stored so far
    nevict,    \* values evicted so far
    win,       \* the window driver: its partition and where its frame is
    nomem      \* the allocation that failed last, if any has

vars == <<has_ctx, ctx, heap, phase, out, lead, nrows, nevict, win, nomem>>

\* The struct as sqlite3_aggregate_context returns it: zero-filled.
ZeroCtx == [values |-> NULLPTR, count |-> 0, capacity |-> 0, head |-> 0,
            tail |-> 0, sum |-> 0, sum_sq |-> 0]

\* ---------------------------------------------------------------------
\* Heap
\* ---------------------------------------------------------------------
\* malloc(n * sizeof(double)): a new block of n unwritten cells, or NULL.
Malloc(h, n, ok) ==
    IF ok
    THEN [ptr |-> Len(h) + 1,
          heap |-> Append(h, [cells |-> [i \in 1..n |-> Uninit], frees |-> 0])]
    ELSE [ptr |-> NULLPTR, heap |-> h]

\* free(p): the block is released (once more); its cells are gone.
Free(h, p) ==
    [h EXCEPT ![p] = [cells |-> <<>>, frees |-> h[p].frees + 1]]

\* values[i] of the struct d (C index i, 0-based).
Cell(d, h, i) == h[d.values].cells[i + 1]

\* The double a read of a cell yields: an unwritten cell holds whatever
\* the block held before, here the value junk.
Read(c, junk) == IF c = Uninit THEN junk ELSE c[1]

\* values[i] = v
SetCell(d, h, i, v) == [h EXCEPT ![d.values].cells[i + 1] = <<v>>]

\* ---------------------------------------------------------------------
\* Natural numbers of any size: the digits in base LimbBase, lowest
\* first, without high zero digits (<<>> is zero).  They carry the 53-bit
\* significands of binary64 values and their products and quotients.
\* ---------------------------------------------------------------------
LimbBits == 15
LimbBase == 2 ^ LimbBits

Limb(a, i) == IF i <= Len(a) THEN a[i] ELSE 0

\* The position of the highest non-zero digit among a[1..i], or 0
RECURSIVE BTop(_, _)
BTop(a, i) == IF i = 0 THEN 0 ELSE IF a[i] # 0 THEN i ELSE BTop(a, i - 1)

BNorm(a) == SubSeq(a, 1, BTop(a, Len(a)))

RECURSIVE BFromInt(_)
BFromInt(n) ==
    IF n = 0 THEN <<>>
    ELSE <<n % LimbBase>> \o BFromInt(n \div LimbBase)

\* -1, 0, 1 as a < b, a = b, a > b, comparing from digit i down
RECURSIVE BCmpFrom(_, _, _)
BCmpFrom(a, b, i) ==
    IF i = 0 THEN 0
    ELSE IF a[i] < b[i] THEN -1
    ELSE IF a[i] > b[i] THEN 1
    ELSE BCmpFrom(a, b, i - 1)

BCmp(a, b) ==
    IF Len(a) < Len(b) THEN -1
    ELSE IF Len(a) > Len(b) THEN 1
    ELSE BCmpFrom(a, b, Len(a))

RECURSIVE BAddFrom(_, _, _, _)
BAddFrom(a, b, i, carry) ==
    IF i > Len(a) /\ i > Len(b)
    THEN IF carry = 0 THEN <<>> ELSE <<carry>>
    ELSE LET s == Limb(a, i) + Limb(b, i) + carry
         IN  <<s % LimbBase>> \o BAddFrom(a, b, i + 1, s \div LimbBase)

BAdd(a, b) == BAddFrom(a, b, 1, 0)

\* a - b for a >= b
RECURSIVE BSubFrom(_, _, _, _)
BSubFrom(a, b, i, borrow) ==
    IF i > Len(a) THEN <<>>
    ELSE LET s == a[i] - Limb(b, i) - borrow
         IN  IF s < 0
             THEN <<s + LimbBase>> \o BSubFrom(a, b, i + 1, 1)
             ELSE <<s>> \o BSubFrom(a, b, i + 1, 0)

BSub(a, b) == BNorm(BSubFrom(a, b, 1, 0))

\* a * k for one digit k
RECURSIVE BMulSmallFrom(_, _, _, _)
BMulSmallFrom(a, k, i, carry) ==
    IF i > Len(a)
    THEN IF carry = 0 THEN <<>> ELSE <<carry>>
    ELSE LET s == a[i] * k + carry
         IN  <<s % LimbBase>> \o BMulSmallFrom(a, k, i + 1, s \div LimbBase)

BMulSmall(a, k) == BNorm(BMulSmallFrom(a, k, 1, 0))

\* a * (b[j] + LimbBase * b[j+1] + ...)
RECURSIVE BMulFrom(_, _, _)
BMulFrom(a, b, j) ==
    IF j > Len(b) THEN <<>>
    ELSE BAdd(BMulSmall(a, b[j]), <<0>> \o BMulFrom(a, b, j + 1))

BMul(a, b) == BNorm(BMulFrom(a, b, 1))

\* The remainder of (a[i] + LimbBase * a[i+1] + ...) by one digit k
RECURSIVE BRemSmallFrom(_, _, _)
BRemSmallFrom(a, k, i) ==
    IF i > Len(a) THEN 0
    ELSE (BRemSmallFrom(a, k, i + 1) * LimbBase + a[i]) % k

\* a \div k for one digit k > 0
BDivSmall(a, k) ==
    BNorm([i \in 1..Len(a) |->
              (BRemSmallFrom(a, k, i + 1) * LimbBase + a[i]) \div k])

\* a * 2^n: whole digits of zeros, then each digit takes the low bits
\* of its own place and the high bits of the place below.
BShl(a, n) ==
    LET s == n % LimbBits
        lo == 2 ^ (LimbBits - s)
    IN  IF a = <<>> THEN a
        ELSE [i \in 1..(n \div LimbBits) |-> 0]
                 \o BNorm([i \in 1..(Len(a) + 1) |->
                              (Limb(a, i) % lo) * 2 ^ s
                                  + (IF i = 1 THEN 0 ELSE a[i - 1] \div lo)])

\* a \div 2^n
BShr(a, n) ==
    LET w == n \div LimbBits
        s == n % LimbBits
        lo == 2 ^ s
    IN  IF w >= Len(a) THEN <<>>
        ELSE BNorm([i \in 1..(Len(a) - w) |->
                       (a[i + w] \div lo)
                           + (Limb(a, i + w + 1) % lo) * 2 ^ (LimbBits - s)])

\* Bit n of a (bit 0 is the lowest)
BBit(a, n) == (Limb(a, (n \div LimbBits) + 1) \div 2 ^ (n % LimbBits)) % 2

RECURSIVE BitLenSmall(_)
BitLenSmall(x) == IF x = 0 THEN 0 ELSE 1 + BitLenSmall(x \div 2)

\* The number of binary digits of a
BBitLen(a) ==
    IF a = <<>> THEN 0
    ELSE LimbBits * (Len(a) - 1) + BitLenSmall(a[Len(a)])

BIsOdd(a) == a # <<>> /\ a[1] % 2 = 1

\* ---------------------------------------------------------------------
\* IEEE 754 binary64 values sign * m * 2^e (m odd, or m zero) and their
\* arithmetic: the exact result, rounded to 53 significant bits, ties to
\* even; a result too large for a double is an infinity.  No value of
\* the model is small enough to underflow.
\* ---------------------------------------------------------------------
SignificandBits == 53

RECURSIVE TrailingZerosSmall(_)
TrailingZerosSmall(x) ==
    IF x % 2 = 1 THEN 0 ELSE 1 + TrailingZerosSmall(x \div 2)

\* The number of low zero bits of a # 0, counted from digit i up
RECURSIVE BTrailingZerosFrom(_, _)
BTrailingZerosFrom(a, i) ==
    IF a[i] = 0 THEN LimbBits + BTrailingZerosFrom(a, i + 1)
    ELSE TrailingZerosSmall(a[i])

BTrailingZeros(a) == BTrailingZerosFrom(a, 1)

F64Zero == [kind |-> "f64", sign |-> 1, m |-> <<>>, e |-> 0]

\* The two kinds of double that are not finite: NaN, and an infinity of
\* either sign.
NAN == [kind |-> "nan", num |-> 0, den |-> 1]

F64Inf(sign) == [kind |-> "inf", sign |-> sign, m |-> <<>>, e |-> 0]

\* A finite double is below 2^MaxExponent in magnitude.
MaxExponent == 1024

\* The canonical x, or the infinity of its sign when x is too large
F64Overflow(x) ==
    IF x.m # <<>> /\ BBitLen(x.m) + x.e > MaxExponent THEN F64Inf(x.sign)
    ELSE x

F64Canon(sign, m, e) ==
    IF m = <<>> THEN F64Zero
    ELSE LET z == BTrailingZeros(m)
         IN  [kind |-> "f64", sign |-> sign, m |-> BShr(m, z), e |-> e + z]

\* The double nearest to sign * (m + f) * 2^e, where 0 < f < 1 when
\* sticky and f = 0 otherwise; an infinity when that is out of range.
\* (No value of the model is small enough to be subnormal.)
F64Round(sign, m, e, sticky) ==
    LET len == BBitLen(m)
        s == len - SignificandBits
    IN  IF s <= 0 THEN F64Overflow(F64Canon(sign, m, e))
        ELSE LET q == BShr(m, s)
                 rest == sticky \/ BTrailingZeros(m) < s - 1
                 up == BBit(m, s - 1) = 1 /\ (rest \/ BIsOdd(q))
             IN  F64Overflow(F64Canon(sign, IF up THEN BAdd(q, <<1>>) ELSE q,
                                      e + s))

\* (double) n for an int n
F64FromInt(n) == F64Canon(IF n < 0 THEN -1 ELSE 1,
                          BFromInt(IF n < 0 THEN -n ELSE n), 0)

F64Neg(x) ==
    IF x.kind = "nan" THEN x
    ELSE IF x.kind = "f64" /\ x.m = <<>> THEN x
    ELSE [x EXCEPT !.sign = -x.sign]

\* inf + (-inf) is NaN, inf + anything else is inf
F64Add(x, y) ==
    IF x.kind = "nan" \/ y.kind = "nan" THEN NAN
    ELSE IF x.kind = "inf"
    THEN IF y.kind = "inf" /\ y.sign # x.sign THEN NAN ELSE x
    ELSE IF y.kind = "inf" THEN y
    ELSE IF x.m = <<>> THEN y
    ELSE IF y.m = <<>> THEN x
    ELSE LET e == IF x.e < y.e THEN x.e ELSE y.e
             a == BShl(x.m, x.e - e)
             b == BShl(y.m, y.e - e)
             c == BCmp(a, b)
         IN  IF x.sign = y.sign THEN F64Round(x.sign, BAdd(a, b), e, FALSE)
             ELSE IF c = 0 THEN F64Zero
             ELSE IF c > 0 THEN F64Round(x.sign, BSub(a, b), e, FALSE)
             ELSE F64Round(y.sign, BSub(b, a), e, FALSE)

F64Sub(x, y) == F64Add(x, F64Neg(y))

\* inf * 0 is NaN, inf * anything else is an infinity
F64Mul(x, y) ==
    IF x.kind = "nan" \/ y.kind = "nan" THEN NAN
    ELSE IF x.kind = "inf" \/ y.kind = "inf"
    THEN IF (x.kind = "f64" /\ x.m = <<>>) \/ (y.kind = "f64" /\ y.m = <<>>)
         THEN NAN
         ELSE F64Inf(x.sign * y.sign)
    ELSE F64Round(x.sign * y.sign, BMul(x.m, y.m), x.e + y.e, FALSE)

\* x / y for a divisor y # 0 whose significand is one digit (the
\* program divides by counts): the quotient of the significands is taken
\* to two bits more than a double holds, the remainder makes it sticky.
F64Div(x, y) ==
    IF x.kind = "nan" THEN NAN
    ELSE IF x.kind = "inf" THEN F64Inf(x.sign * y.sign)
    ELSE IF x.m = <<>> THEN F64Zero
    ELSE LET k == SignificandBits + 2 + LimbBits
             n == BShl(x.m, k)
         IN  F64Round(x.sign * y.sign, BDivSmall(n, y.m[1]),
                      x.e - y.e - k, BRemSmallFrom(n, y.m[1], 1) # 0)

\* ---------------------------------------------------------------------
\* The arithmetic ar in which a run carries its doubles
\* ---------------------------------------------------------------------
Arithmetics == {"exact", "binary64"}

\* 0.0
Zero(ar) == IF ar = "binary64" THEN F64Zero ELSE 0
\* x + y, x - y, x * y on doubles
DAdd(ar, x, y) == IF ar = "binary64" THEN F64Add(x, y) ELSE x + y
DSub(ar, x, y) == IF ar = "binary64" THEN F64Sub(x, y) ELSE x - y
DMul(ar, x, y) == IF ar = "binary64" THEN F64Mul(x, y) ELSE x * y

\* ---------------------------------------------------------------------
\* Helper functions of the source
\* ---------------------------------------------------------------------
\* Variant: the logical index taken as the physical one (head ignored).
get_circular_value_physical(d, h, logical_index) ==
    LET physical_index == logical_index % d.capacity
    IN  Cell(d, h, physical_index)

\* Yields the cell, so that a copy of an unwritten cell stays unwritten.
get_circular_value(d, h, logical_index) ==
    LET physical_index == (d.head + logical_index) % d.capacity
    IN  Cell(d, h, physical_index)

\* Variant: the tail runs on past the end of the buffer.
add_to_circular_buffer_no_wrap(d, h, value) ==
    [d |-> [d EXCEPT !.tail = d.tail + 1,
                     !.count = d.count + 1],
     heap |-> SetCell(d, h, d.tail, value)]

add_to_circular_buffer(d, h, value) ==
    [d |-> [d EXCEPT !.tail = (d.tail + 1) % d.capacity,
                     !.count = d.count + 1],
     heap |-> SetCell(d, h, d.tail, value)]

\* Variant: the newest value is taken, from the tail.
remove_from_circular_buffer_newest(d, h, junk) ==
    IF d.count = 0
    THEN [d |-> d, removed_value |-> 0]
    ELSE LET last == (d.tail + d.capacity - 1) % d.capacity
         IN  [d |-> [d EXCEPT !.tail = last, !.count = d.count - 1],
              removed_value |-> Read(Cell(d, h, last), junk)]

remove_from_circular_buffer(d, h, junk) ==
    IF d.count = 0
    THEN [d |-> d, removed_value |-> 0]
    ELSE [d |-> [d EXCEPT !.head = (d.head + 1) % d.capacity,
                          !.count = d.count - 1],
          removed_value |-> Read(Cell(d, h, d.head), junk)]

\* Variant: the result of malloc is not checked.
init_window_stats_data_unchecked(ar, d, h, ok) ==
    LET d1 == [d EXCEPT !.capacity = INITIAL_CAPACITY]
        m  == Malloc(h, d1.capacity, ok)
        d2 == [d1 EXCEPT !.values = m.ptr]
    IN  [d |-> [d2 EXCEPT !.count = 0, !.head = 0, !.tail = 0,
                          !.sum = Zero(ar), !.sum_sq = Zero(ar)],
         heap |-> m.heap, rc |-> "SQLITE_OK"]

init_window_stats_data(ar, d, h, ok) ==
    LET d1 == [d EXCEPT !.capacity = INITIAL_CAPACITY]
        m  == Malloc(h, d1.capacity, ok)
        d2 == [d1 EXCEPT !.values = m.ptr]
    IN  IF d2.values = NULLPTR
        THEN [d |-> d2, heap |-> m.heap, rc |-> "SQLITE_NOMEM"]
        ELSE [d |-> [d2 EXCEPT !.count = 0, !.head = 0, !.tail = 0,
                               !.sum = Zero(ar), !.sum_sq = Zero(ar)],
              heap |-> m.heap, rc |-> "SQLITE_OK"]

\* Variant: head is left where it was.
grow_stats_buffer_keeps_head(d, h, ok) ==
    LET new_capacity == d.capacity * CAPACITY_GROWTH_FACTOR
        m == Malloc(h, new_capacity, ok)
        new_values == m.ptr
    IN  IF new_values = NULLPTR
        THEN [d |-> d, heap |-> h, rc |-> "SQLITE_NOMEM"]
        ELSE LET copied == [i \in 1..new_capacity |->
                               IF i - 1 < d.count
                               THEN get_circular_value(d, h, i - 1)
                               ELSE Uninit]
                 h1 == [m.heap EXCEPT ![new_values].cells = copied]
                 h2 == IF d.values # NULLPTR THEN Free(h1, d.values) ELSE h1
             IN  [d |-> [d EXCEPT !.values = new_values,
                                  !.capacity = new_capacity,
                                  !.head = d.head,
                                  !.tail = d.count],
                  heap |-> h2, rc |-> "SQLITE_OK"]

\* Variant: the new buffer is no larger than the old one.
grow_stats_buffer_same_size(d, h, ok) ==
    LET new_capacity == d.capacity
        m == Malloc(h, new_capacity, ok)
        new_values == m.ptr
    IN  IF new_values = NULLPTR
        THEN [d |-> d, heap |-> h, rc |-> "SQLITE_NOMEM"]
        ELSE LET copied == [i \in 1..new_capacity |->
                               IF i - 1 < d.count
                               THEN get_circular_value(d, h, i - 1)
                               ELSE Uninit]
                 h1 == [m.heap EXCEPT ![new_values].cells = copied]
                 h2 == IF d.values # NULLPTR THEN Free(h1, d.values) ELSE h1
             IN  [d |-> [d EXCEPT !.values = new_values,
                                  !.capacity = new_capacity,
                                  !.head = 0,
                                  !.tail = d.count],
                  heap |-> h2, rc |-> "SQLITE_OK"]

\* Variant: the capacity field is not updated.
grow_stats_buffer_stale_capacity(d, h, ok) ==
    LET new_capacity == d.capacity * CAPACITY_GROWTH_FACTOR
        m == Malloc(h, new_capacity, ok)
        new_values == m.ptr
    IN  IF new_values = NULLPTR
        THEN [d |-> d, heap |-> h, rc |-> "SQLITE_NOMEM"]
        ELSE LET copied == [i \in 1..new_capacity |->
                               IF i - 1 < d.count
                               THEN get_circular_value(d, h, i - 1)
                               ELSE Uninit]
                 h1 == [m.heap EXCEPT ![new_values].cells = copied]
                 h2 == IF d.values # NULLPTR THEN Free(h1, d.values) ELSE h1
             IN  [d |-> [d EXCEPT !.values = new_values,
                                  !.capacity = d.capacity,
                                  !.head = 0,
                                  !.tail = d.count],
                  heap |-> h2, rc |-> "SQLITE_OK"]

\* Variant: the buffer grows by a fixed step.
grow_stats_buffer_linear(d, h, ok) ==
    LET new_capacity == d.capacity + INITIAL_CAPACITY
        m == Malloc(h, new_capacity, ok)
        new_values == m.ptr
    IN  IF new_values = NULLPTR
        THEN [d |-> d, heap |-> h, rc |-> "SQLITE_NOMEM"]
        ELSE LET copied == [i \in 1..new_capacity |->
                               IF i - 1 < d.count
                               THEN get_circular_value(d, h, i - 1)
                               ELSE Uninit]
                 h1 == [m.heap EXCEPT ![new_values].cells = copied]
                 h2 == IF d.values # NULLPTR THEN Free(h1, d.values) ELSE h1
             IN  [d |-> [d EXCEPT !.values = new_values,
                                  !.capacity = new_capacity,
                                  !.head = 0,
                                  !.tail = d.count],
                  heap |-> h2, rc |-> "SQLITE_OK"]

\* Variant: the old buffer is let go of when the new one cannot be had.
grow_stats_buffer_drops_buffer(d, h, ok) ==
    LET new_capacity == d.capacity * CAPACITY_GROWTH_FACTOR
        m == Malloc(h, new_capacity, ok)
        new_values == m.ptr
    IN  IF new_values = NULLPTR
        THEN [d |-> [d EXCEPT !.values = NULLPTR], heap |-> h,
              rc |-> "SQLITE_NOMEM"]
        ELSE LET copied == [i \in 1..new_capacity |->
                               IF i - 1 < d.count
                               THEN get_circular_value(d, h, i - 1)
                               ELSE Uninit]
                 h1 == [m.heap EXCEPT ![new_values].cells = copied]
                 h2 == IF d.values # NULLPTR THEN Free(h1, d.values) ELSE h1
             IN  [d |-> [d EXCEPT !.values = new_values,
                                  !.capacity = new_capacity,
                                  !.head = 0,
                                  !.tail = d.count],
                  heap |-> h2, rc |-> "SQLITE_OK"]

\* Variant: capacity is assigned before the allocation is checked.
grow_stats_buffer_capacity_first(d, h, ok) ==
    LET new_capacity == d.capacity * CAPACITY_GROWTH_FACTOR
        m == Malloc(h, new_capacity, ok)
        new_values == m.ptr
    IN  IF new_values = NULLPTR
        THEN [d |-> [d EXCEPT !.capacity = new_capacity], heap |-> h, rc |-> "SQLITE_NOMEM"]
        ELSE LET copied == [i \in 1..new_capacity |->
                               IF i - 1 < d.count
                               THEN get_circular_value(d, h, i - 1)
                               ELSE Uninit]
                 h1 == [m.heap EXCEPT ![new_values].cells = copied]
                 h2 == IF d.values # NULLPTR THEN Free(h1, d.values) ELSE h1
             IN  [d |-> [d EXCEPT !.values = new_values,
                                  !.capacity = new_capacity,
                                  !.head = 0,
                                  !.tail = d.count],
                  heap |-> h2, rc |-> "SQLITE_OK"]

grow_stats_buffer(d, h, ok) ==
    LET new_capacity == d.capacity * CAPACITY_GROWTH_FACTOR
        m == Malloc(h, new_capacity, ok)
        new_values == m.ptr
    IN  IF new_values = NULLPTR
        THEN [d |-> d, heap |-> h, rc |-> "SQLITE_NOMEM"]
        ELSE LET copied == [i \in 1..new_capacity |->
                               IF i - 1 < d.count
                               THEN get_circular_value(d, h, i - 1)
                               ELSE Uninit]
                 h1 == [m.heap EXCEPT ![new_values].cells = copied]
                 h2 == IF d.values # NULLPTR THEN Free(h1, d.values) ELSE h1
             IN  [d |-> [d EXCEPT !.values = new_values,
                                  !.capacity = new_capacity,
                                  !.head = 0,
                                  !.tail = d.count],
                  heap |-> h2, rc |-> "SQLITE_OK"]

\* ---------------------------------------------------------------------
\* Doubles of the derived statistics: NaN, or an exact fraction num/den
\* (den > 0), or a binary64 value, or the square root of one of these.
\* ---------------------------------------------------------------------
Abs(n) == IF n < 0 THEN -n ELSE n

RECURSIVE GCD(_, _)
GCD(a, b) == IF b = 0 THEN a ELSE GCD(b, a % b)

\* The fraction n/d (d # 0) in lowest terms with a positive denominator.
Frac(n, d) ==
    LET g == GCD(Abs(n), Abs(d))
        s == IF d < 0 THEN -1 ELSE 1
    IN  [kind |-> "num", num |-> s * (n \div g), den |-> s * (d \div g)]

\* (double) n
Num(n) == Frac(n, 1)

\* The double x held by the struct, and (double) n for an integer n, as
\* the calculations take them.
Double(ar, x) == IF ar = "binary64" THEN x ELSE Num(x)
Cast(ar, n) == IF ar = "binary64" THEN F64FromInt(n) ELSE Num(n)

isnan(x) == x.kind = "nan"
isinf(x) == x.kind = "inf"

\* x / y : 0/0 is NaN; a non-zero value over zero would be infinite and
\* does not occur for the counts the callers pass.
FDiv(x, y) ==
    IF isnan(x) \/ isnan(y) THEN NAN
    ELSE IF x.kind # "num" THEN F64Div(x, y)
    ELSE IF y.num = 0 THEN NAN
    ELSE LET a == Frac(x.num, y.num)
             b == Frac(y.den, x.den)
         IN  Frac(a.num * b.num, a.den * b.den)

FMul(x, y) ==
    IF isnan(x) \/ isnan(y) THEN NAN
    ELSE IF x.kind # "num" THEN F64Mul(x, y)
    ELSE LET a == Frac(x.num, y.den)
             b == Frac(y.num, x.den)
         IN  Frac(a.num * b.num, a.den * b.den)

FSub(x, y) ==
    IF isnan(x) \/ isnan(y) THEN NAN
    ELSE IF x.kind # "num" THEN F64Sub(x, y)
    ELSE LET g == GCD(x.den, y.den)
         IN  Frac(x.num * (y.den \div g) - y.num * (x.den \div g),
                  x.den * (y.den \div g))

FAdd(x, y) ==
    IF isnan(x) \/ isnan(y) THEN NAN
    ELSE IF x.kind # "num" THEN F64Add(x, y)
    ELSE LET g == GCD(x.den, y.den)
         IN  Frac(x.num * (y.den \div g) + y.num * (x.den \div g),
                  x.den * (y.den \div g))

\* sqrt(x): NaN for a negative argument, else the root, kept symbolic.
sqrt(x) ==
    IF isnan(x) THEN NAN
    ELSE IF x.kind = "inf" THEN IF x.sign < 0 THEN NAN ELSE x
    ELSE IF x.kind = "f64"
    THEN IF x.sign < 0 THEN NAN ELSE [kind |-> "sqrt", arg |-> x]
    ELSE IF x.num < 0 THEN NAN
    ELSE [kind |-> "sqrt", num |-> x.num, den |-> x.den]

\* ---------------------------------------------------------------------
\* Core calculation logic
\* ---------------------------------------------------------------------
\* Variant: Bessel's correction is left out.
calculate_variance_sample_uncorrected(ar, d) ==
    IF d.count < MIN_COUNT_SAMPLE THEN NAN
    ELSE LET mean == FDiv(Double(ar, d.sum), Cast(ar, d.count))
         IN  FSub(FDiv(Double(ar, d.sum_sq), Cast(ar, d.count)),
                  FMul(mean, mean))

calculate_variance_sample(ar, d) ==
    IF d.count < MIN_COUNT_SAMPLE THEN NAN
    ELSE LET mean == FDiv(Double(ar, d.sum), Cast(ar, d.count))
             variance_pop == FSub(FDiv(Double(ar, d.sum_sq), Cast(ar, d.count)),
                                  FMul(mean, mean))
         IN  FMul(variance_pop, FDiv(Cast(ar, d.count), Cast(ar, d.count - 1)))

\* Variant: the threshold of the sample statistics.
calculate_variance_population_min2(ar, d) ==
    IF d.count < MIN_COUNT_SAMPLE THEN NAN
    ELSE LET mean == FDiv(Double(ar, d.sum), Cast(ar, d.count))
         IN  FSub(FDiv(Double(ar, d.sum_sq), Cast(ar, d.count)), FMul(mean, mean))

\* Variant: the mean is not squared.
calculate_variance_population_mean(ar, d) ==
    IF d.count < MIN_COUNT_POPULATION THEN NAN
    ELSE LET mean == FDiv(Double(ar, d.sum), Cast(ar, d.count))
         IN  FSub(FDiv(Double(ar, d.sum_sq), Cast(ar, d.count)), mean)

calculate_variance_population(ar, d) ==
    IF d.count < MIN_COUNT_POPULATION THEN NAN
    ELSE LET mean == FDiv(Double(ar, d.sum), Cast(ar, d.count))
         IN  FSub(FDiv(Double(ar, d.sum_sq), Cast(ar, d.count)), FMul(mean, mean))

calculate_stddev_sample(ar, d) ==
    LET variance == calculate_variance_sample(ar, d)
    IN  IF isnan(variance) THEN NAN ELSE sqrt(variance)

calculate_stddev_population(ar, d) ==
    LET variance == calculate_variance_population(ar, d)
    IN  IF isnan(variance) THEN NAN ELSE sqrt(variance)

\* The four statistics and what each xValue / xFinal callback passes to
\* its helper: the calculation and the minimum count.
StatNames == {"stddev_samp", "stddev_pop", "variance_samp", "variance_pop"}

StatFunc(ar, fn, d) ==
    CASE fn = "stddev_samp"   -> calculate_stddev_sample(ar, d)
      [] fn = "stddev_pop"    -> calculate_stddev_population(ar, d)
      [] fn = "variance_samp" -> calculate_variance_sample(ar, d)
      [] fn = "variance_pop"  -> calculate_variance_population(ar, d)

StatMinCount(fn) ==
    CASE fn = "stddev_samp"   -> MIN_COUNT_SAMPLE
      [] fn = "stddev_pop"    -> MIN_COUNT_POPULATION
      [] fn = "variance_samp" -> MIN_COUNT_SAMPLE
      [] fn = "variance_pop"  -> MIN_COUNT_POPULATION

\* What a callback hands to SQLite: sqlite3_result_null or a double.
SqlNull == [kind |-> "null", num |-> 0, den |-> 1]

\* Variant: the result is handed over as computed.
set_result_unfiltered(result) == result

set_result(result) ==
    IF isnan(result) \/ isinf(result) THEN SqlNull ELSE result

\* c is TRUE when sqlite3_aggregate_context(context, 0) is not NULL.
stats_value_helper(ar, c, d, fn, min_count) ==
    IF ~c \/ d.values = NULLPTR \/ d.count < min_count
    THEN SqlNull
    ELSE set_result(StatFunc(ar, fn, d))

\* Variant: xFinal asks for more than min_count values.
stats_final_helper_strict(ar, c, d, fn, min_count) ==
    IF c /\ d.values # NULLPTR /\ d.count > min_count
    THEN set_result(StatFunc(ar, fn, d))
    ELSE SqlNull

stats_final_helper(ar, c, d, fn, min_count) ==
    IF c /\ d.values # NULLPTR /\ d.count >= min_count
    THEN set_result(StatFunc(ar, fn, d))
    ELSE SqlNull

\* xDestroy: SQLite calls it with the application-data pointer.  p is the
\* pointer it is given; d is the struct p points to when p is the context.
stats_destroy(p, d, h) ==
    IF p # NULLPTR /\ d.values # NULLPTR
    THEN [d |-> [d EXCEPT !.values = NULLPTR], heap |-> Free(h, d.values)]
    ELSE [d |-> d, heap |-> h]

\* ---------------------------------------------------------------------
\* SQLite callbacks
\* ---------------------------------------------------------------------
NumericTypes == {"SQLITE_INTEGER", "SQLITE_FLOAT"}
OtherTypes == {"SQLITE_NULL", "SQLITE_TEXT"}

\* sqlite3_value_double of a numeric argument
sqlite3_value_double(arg) == arg.val

\* Variant: the type of a non-NULL argument is not checked.
stats_step_any_type(ar, c, d, h, argc, arg, ctx_ok, init_ok, grow_ok) ==
    IF argc # 1
    THEN [has_ctx |-> c, d |-> d, heap |-> h, rc |-> "SQLITE_ERROR",
          stored |-> FALSE]
    ELSE IF ~c /\ ~ctx_ok
    THEN [has_ctx |-> c, d |-> d, heap |-> h, rc |-> "SQLITE_NOMEM",
          stored |-> FALSE]
    ELSE
    LET i == IF d.values = NULLPTR
             THEN init_window_stats_data(ar, d, h, init_ok)
             ELSE [d |-> d, heap |-> h, rc |-> "SQLITE_OK"]
    IN  IF i.rc # "SQLITE_OK"
        THEN [has_ctx |-> TRUE, d |-> i.d, heap |-> i.heap,
              rc |-> "SQLITE_NOMEM", stored |-> FALSE]
        ELSE IF arg.type = "SQLITE_NULL"
        THEN [has_ctx |-> TRUE, d |-> i.d, heap |-> i.heap,
              rc |-> "SQLITE_OK", stored |-> FALSE]
        ELSE
        LET g == IF i.d.count >= i.d.capacity
                 THEN grow_stats_buffer(i.d, i.heap, grow_ok)
                 ELSE [d |-> i.d, heap |-> i.heap, rc |-> "SQLITE_OK"]
        IN  IF g.rc # "SQLITE_OK"
            THEN [has_ctx |-> TRUE, d |-> g.d, heap |-> g.heap,
                  rc |-> "SQLITE_NOMEM", stored |-> FALSE]
            ELSE
            LET value == sqlite3_value_double(arg)
                a == add_to_circular_buffer(g.d, g.heap, value)
            IN  [has_ctx |-> TRUE,
                 d |-> [a.d EXCEPT
                           !.sum = DAdd(ar, a.d.sum, value),
                           !.sum_sq = DAdd(ar, a.d.sum_sq,
                                           DMul(ar, value, value))],
                 heap |-> a.heap, rc |-> "SQLITE_OK", stored |-> TRUE]

\* xStep.  c: the context exists already; ctx_ok, init_ok, grow_ok: the
\* outcomes of the allocations the call makes (of the context by
\* sqlite3_aggregate_context, of the first buffer, of the grown buffer).
stats_step(ar, c, d, h, argc, arg, ctx_ok, init_ok, grow_ok) ==
    IF argc # 1
    THEN [has_ctx |-> c, d |-> d, heap |-> h, rc |-> "SQLITE_ERROR",
          stored |-> FALSE]
    ELSE IF ~c /\ ~ctx_ok
    THEN [has_ctx |-> c, d |-> d, heap |-> h, rc |-> "SQLITE_NOMEM",
          stored |-> FALSE]
    ELSE
    LET i == IF d.values = NULLPTR
             THEN init_window_stats_data(ar, d, h, init_ok)
             ELSE [d |-> d, heap |-> h, rc |-> "SQLITE_OK"]
    IN  IF i.rc # "SQLITE_OK"
        THEN [has_ctx |-> TRUE, d |-> i.d, heap |-> i.heap,
              rc |-> "SQLITE_NOMEM", stored |-> FALSE]
        ELSE IF arg.type = "SQLITE_NULL"
        THEN [has_ctx |-> TRUE, d |-> i.d, heap |-> i.heap,
              rc |-> "SQLITE_OK", stored |-> FALSE]
        ELSE IF arg.type \notin NumericTypes
        THEN [has_ctx |-> TRUE, d |-> i.d, heap |-> i.heap,
              rc |-> "SQLITE_ERROR", stored |-> FALSE]
        ELSE
        LET g == IF i.d.count >= i.d.capacity
                 THEN grow_stats_buffer(i.d, i.heap, grow_ok)
                 ELSE [d |-> i.d, heap |-> i.heap, rc |-> "SQLITE_OK"]
        IN  IF g.rc # "SQLITE_OK"
            THEN [has_ctx |-> TRUE, d |-> g.d, heap |-> g.heap,
                  rc |-> "SQLITE_NOMEM", stored |-> FALSE]
            ELSE
            LET value == sqlite3_value_double(arg)
                a == add_to_circular_buffer(g.d, g.heap, value)
            IN  [has_ctx |-> TRUE,
                 d |-> [a.d EXCEPT
                           !.sum = DAdd(ar, a.d.sum, value),
                           !.sum_sq = DAdd(ar, a.d.sum_sq,
                                           DMul(ar, value, value))],
                 heap |-> a.heap, rc |-> "SQLITE_OK", stored |-> TRUE]

\* Variant: a NULL row leaving the frame is evicted like any other.
stats_inverse_evicts_null(ar, c, d, h, arg, junk) ==
    IF ~c \/ d.values = NULLPTR \/ d.count <= 0
    THEN [d |-> d, removed |-> FALSE, removed_value |-> 0]
    ELSE
    LET r == remove_from_circular_buffer(d, h, junk)
        removed_value == r.removed_value
    IN  [d |-> [r.d EXCEPT
                   !.sum = DSub(ar, r.d.sum, removed_value),
                   !.sum_sq = DSub(ar, r.d.sum_sq,
                                   DMul(ar, removed_value, removed_value))],
         removed |-> TRUE, removed_value |-> removed_value]

\* Variant: the count is not tested before the removal.
stats_inverse_unguarded(ar, c, d, h, arg, junk) ==
    IF ~c \/ d.values = NULLPTR
    THEN [d |-> d, removed |-> FALSE, removed_value |-> 0]
    ELSE IF arg.type = "SQLITE_NULL"
    THEN [d |-> d, removed |-> FALSE, removed_value |-> 0]
    ELSE
    LET r == remove_from_circular_buffer(d, h, junk)
        removed_value == r.removed_value
    IN  [d |-> [r.d EXCEPT
                   !.sum = DSub(ar, r.d.sum, removed_value),
                   !.sum_sq = DSub(ar, r.d.sum_sq,
                                   DMul(ar, removed_value, removed_value))],
         removed |-> TRUE, removed_value |-> removed_value]

\* xInverse.  c: sqlite3_aggregate_context(context, 0) is not NULL.
stats_inverse(ar, c, d, h, arg, junk) ==
    IF ~c \/ d.values = NULLPTR \/ d.count <= 0
    THEN [d |-> d, removed |-> FALSE, removed_value |-> 0]
    ELSE IF arg.type = "SQLITE_NULL"
    THEN [d |-> d, removed |-> FALSE, removed_value |-> 0]
    ELSE
    LET r == remove_from_circular_buffer(d, h, junk)
        removed_value == r.removed_value
    IN  [d |-> [r.d EXCEPT
                   !.sum = DSub(ar, r.d.sum, removed_value),
                   !.sum_sq = DSub(ar, r.d.sum_sq,
                                   DMul(ar, removed_value, removed_value))],
         removed |-> TRUE, removed_value |-> removed_value]

\* ---------------------------------------------------------------------
\* Inputs
\* ---------------------------------------------------------------------
\* The numeric values the next stored row may carry.
NextValues == IF nrows < lead THEN {RowValue(nrows)} ELSE Values

\* argv[0] of a call: a numeric value, or a value of another type.
Args ==
    [type : NumericTypes, val : NextValues]
        \cup [type : OtherTypes, val : {0}]

ArgCounts == {1, 2}

\* What the cell at head may read as: an unwritten cell holds any value.
JunkValues ==
    IF ctx.values # NULLPTR /\ ctx.count > 0
           /\ Cell(ctx, heap, ctx.head % Len(heap[ctx.values].cells)) = Uninit
    THEN Values
    ELSE {0}

\* The outcome of an allocation, drawn when the call makes it.
AllocOutcomes(called) == IF called THEN BOOLEAN ELSE {TRUE}

\* The last callback's report: the callback, the arguments that decided
\* its path, the error code it set, whether it stored or removed a value
\* (and which), and the result it gave.
Report(op, fn, argc, type, rc, done, val, res) ==
    [op |-> op, fn |-> fn, argc |-> argc, type |-> type, rc |-> rc,
     done |-> done, val |-> val, res |-> res]

\* The allocation that failed last, after the xStep with outcome r: of
\* the context, of the first buffer, or of the grown buffer; before is
\* the one that had failed last until then.
FailedAllocation(r, before) ==
    IF r.rc # "SQLITE_NOMEM" THEN before
    ELSE IF ~r.has_ctx THEN "context"
    ELSE IF r.d.values = NULLPTR THEN "init"
    ELSE "growth"

\* The window driver of a run that has none: the callbacks are called in
\* any order, with any arguments.
NoWindow == [ar |-> "exact", rows |-> <<>>, entered |-> 0, left |-> 0]

\* ---------------------------------------------------------------------
\* Initial state: no row has been stepped, nothing is allocated.
\* ---------------------------------------------------------------------
Init ==
    /\ has_ctx = FALSE
    /\ ctx = ZeroCtx
    /\ heap = <<>>
    /\ phase = "active"
    /\ out = Report("none", "", 0, "", "SQLITE_OK", FALSE, 0, SqlNull)
    /\ lead \in {0, Lead}
    /\ nrows = 0
    /\ nevict = 0
    /\ win = NoWindow
    /\ nomem = "none"

\* ---------------------------------------------------------------------
\* Actions: one per callback SQLite invokes
\* ---------------------------------------------------------------------
Step ==
    /\ phase = "active"
    /\ \E argc \in ArgCounts, arg \in Args :
       \E ctx_ok \in AllocOutcomes(~has_ctx),
          init_ok \in AllocOutcomes(ctx.values = NULLPTR),
          grow_ok \in AllocOutcomes(ctx.values # NULLPTR
                                      /\ ctx.count >= ctx.capacity) :
          LET r == stats_step("exact", has_ctx, ctx, heap, argc, arg,
                              ctx_ok, init_ok, grow_ok)
          IN  /\ r.stored => nrows < lead + MaxRows
              /\ has_ctx' = r.has_ctx
              /\ ctx' = r.d
              /\ heap' = r.heap
              /\ nrows' = IF r.stored THEN nrows + 1 ELSE nrows
              /\ out' = Report("step", "", argc, arg.type, r.rc, r.stored,
                               IF r.stored THEN arg.val ELSE 0, SqlNull)
              /\ nomem' = FailedAllocation(r, nomem)
    /\ UNCHANGED <<phase, lead, nevict, win>>

Inverse ==
    /\ phase = "active"
    /\ \E type \in NumericTypes \cup OtherTypes, junk \in JunkValues :
          LET r == stats_inverse("exact", has_ctx, ctx, heap,
                                 [type |-> type, val |-> 0], junk)
          IN  /\ r.removed => nevict < MaxEvicts
              /\ ctx' = r.d
              /\ nevict' = IF r.removed THEN nevict + 1 ELSE nevict
              /\ out' = Report("inverse", "", 1, type, "SQLITE_OK",
                               r.removed, r.removed_value, SqlNull)
    /\ UNCHANGED <<has_ctx, heap, phase, lead, nrows, win, nomem>>

\* xValue of the statistic fn
Value ==
    /\ phase = "active"
    /\ \E fn \in StatNames :
          out' = Report("value", fn, 0, "", "SQLITE_OK", FALSE, 0,
                        stats_value_helper("exact", has_ctx, ctx, fn,
                                           StatMinCount(fn)))
    /\ UNCHANGED <<has_ctx, ctx, heap, phase, lead, nrows, nevict, win, nomem>>

\* xFinal of the statistic fn; SQLite then releases the aggregate context
\* (the struct itself, not what its fields point to).
Final ==
    /\ phase = "active"
    /\ \E fn \in StatNames :
          out' = Report("final", fn, 0, "", "SQLITE_OK", FALSE, 0,
                        stats_final_helper("exact", has_ctx, ctx, fn,
                                           StatMinCount(fn)))
    /\ has_ctx' = FALSE
    /\ ctx' = ZeroCtx
    /\ phase' = "ended"
    /\ UNCHANGED <<heap, lead, nrows, nevict, win, nomem>>

\* The function is deleted (the connection closes): SQLite calls xDestroy
\* with the application-data pointer of the registration.
Destroy ==
    /\ phase = "ended"
    /\ LET r == stats_destroy(PAPP, ctx, heap)
       IN  /\ ctx' = r.d
           /\ heap' = r.heap
    /\ phase' = "closed"
    /\ out' = Report("destroy", "", 0, "", "SQLITE_OK", FALSE, 0, SqlNull)
    /\ UNCHANGED <<has_ctx, lead, nrows, nevict, win, nomem>>

Next == Step \/ Inverse \/ Value \/ Final \/ Destroy

Spec == Init /\ [][Next]_vars

\* ---------------------------------------------------------------------
\* A long partition: enough leading rows to fill the first buffer and
\* the one that replaces it, so that the buffer grows twice.
\* ---------------------------------------------------------------------
LongLead == INITIAL_CAPACITY * CAPACITY_GROWTH_FACTOR - 1

InitLong ==
    /\ has_ctx = FALSE
    /\ ctx = ZeroCtx
    /\ heap = <<>>
    /\ phase = "active"
    /\ out = Report("none", "", 0, "", "SQLITE_OK", FALSE, 0, SqlNull)
    /\ lead = LongLead
    /\ nrows = 0
    /\ nevict = 0
    /\ win = NoWindow
    /\ nomem = "none"

SpecLong == InitLong /\ [][Next]_vars

\* ---------------------------------------------------------------------
\* The window driver.  SQLite runs a window function over the rows of a
\* partition in order: xStep on each row as it enters the frame, xInverse
\* on each row as it leaves, oldest first and with the row's own value,
\* xValue for the result of a row and xFinal at the end.  A step that
\* reports an error aborts the statement: xFinal alone follows.
\* ---------------------------------------------------------------------
\* Rows the driver may meet in the partitions with freely chosen rows
MaxWinRows == 3
\* Rows of the partitions of decimal fractions
MaxDecimalRows == 3
MaxHugeRows == 2

Row(type, val) == [type |-> type, val |-> val]
NullRow == Row("SQLITE_NULL", 0)

\* The doubles nearest to 0.1 and 0.3
Tenth == F64Div(F64FromInt(1), F64FromInt(10))
ThreeTenths == F64Div(F64FromInt(3), F64FromInt(10))
\* Finite REALs whose square is not: 2^600 (about 4.1e180) and -2^600
Huge == [kind |-> "f64", sign |-> 1, m |-> <<1>>, e |-> 600]
NegHuge == F64Neg(Huge)

\* The example table of the README: its value column (REAL)
ReadmeRows ==
    [i \in 1..10 |->
        Row("SQLITE_FLOAT", <<10, 12, 15, 13, 18, 20, 22, 25, 23, 28>>[i])]

\* The partitions: any mix of NULL and integer rows, the README's table,
\* columns of decimal fractions, and columns of huge values.
Partitions ==
    [ar : {"exact"},
     rows : [1..MaxWinRows ->
                {NullRow} \cup {Row("SQLITE_INTEGER", v) : v \in Values}]]
      \cup [ar : {"exact"}, rows : {ReadmeRows}]
      \cup [ar : {"binary64"},
            rows : [1..MaxDecimalRows ->
                       {Row("SQLITE_FLOAT", v) : v \in {Tenth, ThreeTenths}}]]
      \cup [ar : {"binary64"},
            rows : [1..MaxHugeRows ->
                       {Row("SQLITE_FLOAT", v) : v \in {Huge, NegHuge}}]]

WinInit ==
    /\ has_ctx = FALSE
    /\ ctx = ZeroCtx
    /\ heap = <<>>
    /\ phase = "active"
    /\ out = Report("none", "", 0, "", "SQLITE_OK", FALSE, 0, SqlNull)
    /\ lead = 0
    /\ nrows = 0
    /\ nevict = 0
    /\ win \in {[ar |-> p.ar, rows |-> p.rows, entered |-> 0, left |-> 0] :
                   p \in Partitions}
    /\ nomem = "none"

\* A step has reported an error: the statement is being aborted.
Aborted == out.op = "step" /\ out.rc # "SQLITE_OK"

\* The next row of the partition enters the frame.
WinEnter ==
    /\ phase = "active" /\ ~Aborted
    /\ win.entered < Len(win.rows)
    /\ LET row == win.rows[win.entered + 1] IN
       \E ctx_ok \in AllocOutcomes(~has_ctx),
          init_ok \in AllocOutcomes(ctx.values = NULLPTR),
          grow_ok \in AllocOutcomes(ctx.values # NULLPTR
                                      /\ ctx.count >= ctx.capacity) :
          LET r == stats_step(win.ar, has_ctx, ctx, heap, 1, row,
                              ctx_ok, init_ok, grow_ok)
          IN  /\ has_ctx' = r.has_ctx
              /\ ctx' = r.d
              /\ heap' = r.heap
              /\ nrows' = IF r.stored THEN nrows + 1 ELSE nrows
              /\ out' = Report("step", "", 1, row.type, r.rc, r.stored,
                               IF r.stored THEN row.val ELSE 0, SqlNull)
              /\ win' = IF r.rc = "SQLITE_OK"
                        THEN [win EXCEPT !.entered = win.entered + 1]
                        ELSE win
              /\ nomem' = FailedAllocation(r, nomem)
    /\ UNCHANGED <<phase, lead, nevict>>

\* The oldest row of the frame leaves it.
WinLeave ==
    /\ phase = "active" /\ ~Aborted
    /\ win.left < win.entered
    /\ LET row == win.rows[win.left + 1]
           r == stats_inverse(win.ar, has_ctx, ctx, heap, row, Zero(win.ar))
       IN  /\ ctx' = r.d
           /\ nevict' = IF r.removed THEN nevict + 1 ELSE nevict
           /\ out' = Report("inverse", "", 1, row.type, "SQLITE_OK",
                            r.removed, r.removed_value, SqlNull)
    /\ win' = [win EXCEPT !.left = win.left + 1]
    /\ UNCHANGED <<has_ctx, heap, phase, lead, nrows, nomem>>

\* xValue of the statistic fn for the current frame
WinValue ==
    /\ phase = "active" /\ ~Aborted
    /\ \E fn \in StatNames :
          out' = Report("value", fn, 0, "", "SQLITE_OK", FALSE, 0,
                        stats_value_helper(win.ar, has_ctx, ctx, fn,
                                           StatMinCount(fn)))
    /\ UNCHANGED <<has_ctx, ctx, heap, phase, lead, nrows, nevict, win, nomem>>

\* xFinal of the statistic fn; SQLite then releases the aggregate context.
WinFinal ==
    /\ phase = "active"
    /\ \E fn \in StatNames :
          out' = Report("final", fn, 0, "", "SQLITE_OK", FALSE, 0,
                        stats_final_helper(win.ar, has_ctx, ctx, fn,
                                           StatMinCount(fn)))
    /\ has_ctx' = FALSE
    /\ ctx' = ZeroCtx
    /\ phase' = "ended"
    /\ UNCHANGED <<heap, lead, nrows, nevict, win, nomem>>

WinNext == WinEnter \/ WinLeave \/ WinValue \/ WinFinal

SpecWindow == WinInit /\ [][WinNext]_vars

\* ---------------------------------------------------------------------
\* Vocabulary of the properties
\* ---------------------------------------------------------------------
\* Physical index of the i-th oldest live value (i = 0 is the oldest).
LivePos(d, i) == (d.head + i) % d.capacity

\* The live cells of the buffer, oldest first.
LiveCells(d, h) ==
    IF d.values = NULLPTR THEN <<>>
    ELSE [i \in 1..d.count |-> h[d.values].cells[LivePos(d, i - 1) + 1]]

\* The live values, oldest first (defined when every live cell is written).
LiveValues(d, h) ==
    LET cells == LiveCells(d, h)
    IN  [i \in 1..Len(cells) |-> cells[i][1]]

AllWritten(cells) == \A i \in 1..Len(cells) : cells[i] # Uninit

\* s[lo] + ... + s[hi], by halves
RECURSIVE SumRange(_, _, _)
SumRange(s, lo, hi) ==
    IF lo > hi THEN 0
    ELSE IF lo = hi THEN s[lo]
    ELSE LET mid == (lo + hi) \div 2
         IN  SumRange(s, lo, mid) + SumRange(s, mid + 1, hi)

SeqSum(s) == SumRange(s, 1, Len(s))

Squares(s) == [i \in 1..Len(s) |-> s[i] * s[i]]

\* The sum of the doubles s[1] .. s[n], added up from 0.0 in this order
RECURSIVE FoldAdd(_, _, _)
FoldAdd(ar, s, n) ==
    IF n = 0 THEN Zero(ar) ELSE DAdd(ar, FoldAdd(ar, s, n - 1), s[n])

\* The sum and the squares of the values s, computed afresh in the
\* arithmetic ar (in exact arithmetic the order of a sum is immaterial).
FreshSum(ar, s) == IF ar = "exact" THEN SeqSum(s) ELSE FoldAdd(ar, s, Len(s))
FreshSquares(ar, s) == [i \in 1..Len(s) |-> DMul(ar, s[i], s[i])]

\* The textbook population variance (1/n) * sum of (x_i - mean)^2.
RECURSIVE SumSqDev(_, _, _, _)
SumSqDev(s, lo, hi, mean) ==
    IF lo > hi THEN Num(0)
    ELSE IF lo = hi
    THEN LET dev == FSub(Num(s[lo]), mean) IN FMul(dev, dev)
    ELSE LET mid == (lo + hi) \div 2
         IN  FAdd(SumSqDev(s, lo, mid, mean), SumSqDev(s, mid + 1, hi, mean))

TextbookVariance(s) ==
    LET n == Len(s)
        mean == FDiv(Num(SeqSum(s)), Num(n))
    IN  FDiv(SumSqDev(s, 1, n, mean), Num(n))

\* A statistic x is a number (not NaN) that is >= 0, or that is 0.
NonNegative(x) ==
    /\ ~isnan(x)
    /\ IF x.kind = "num" THEN x.num >= 0 ELSE x.sign > 0
IsZero(x) ==
    \/ x.kind = "num" /\ x.num = 0
    \/ x.kind = "f64" /\ x.m = <<>>

\* The step just taken was this callback.
Did(op) == out'.op = op
\* ... and it stored (step) or removed (inverse) a value.
Stored == Did("step") /\ out'.done
Removed == Did("inverse") /\ out'.done

\* ---------------------------------------------------------------------
\* C1: in every reachable state sum is the sum of exactly the count live
\* values of the buffer and sum_sq the sum of their squares, so each of
\* the four statistics equals the one computed from the live values alone.
\* ---------------------------------------------------------------------
C1_SumsMatchLiveValues ==
    phase = "active" =>
        LET cells == LiveCells(ctx, heap)
            live == [i \in 1..Len(cells) |-> cells[i][1]]
            fresh == [ctx EXCEPT
                         !.sum = FreshSum(win.ar, live),
                         !.sum_sq = FreshSum(win.ar,
                                             FreshSquares(win.ar, live))]
        IN  IF ctx.values = NULLPTR
            THEN \* the zero-filled struct: no live value, both sums 0
                 ctx.count = 0 /\ ctx.sum = 0 /\ ctx.sum_sq = 0
            ELSE /\ AllWritten(cells)
                 /\ Len(cells) = ctx.count
                 /\ ctx.sum = fresh.sum
                 /\ ctx.sum_sq = fresh.sum_sq
                 /\ \A fn \in StatNames :
                       StatFunc(win.ar, fn, ctx) = StatFunc(win.ar, fn, fresh)

\* ---------------------------------------------------------------------
\* C2: the buffer refines a FIFO queue: a stored value is appended to the
\* live values read oldest to newest, an evict removes and yields the
\* oldest one, and nothing else changes the live values; this across
\* wrap-around and growth.
\* ---------------------------------------------------------------------
C2_FifoRefinement ==
    [][phase' = "active" =>
         /\ Stored =>
               LiveCells(ctx', heap') = Append(LiveCells(ctx, heap), <<out'.val>>)
         /\ Removed =>
               /\ LiveCells(ctx, heap) # <<>>
               /\ <<out'.val>> = Head(LiveCells(ctx, heap))
               /\ LiveCells(ctx', heap') = Tail(LiveCells(ctx, heap))
         /\ (~Stored /\ ~Removed) =>
               LiveCells(ctx', heap') = LiveCells(ctx, heap)]_vars

\* An evict after a growth: the first buffer has been replaced.
C2_Witness ==
    /\ out.op = "inverse" /\ out.done
    /\ Len(heap) = 2
    /\ ctx.head = 1
    /\ ctx.count >= INITIAL_CAPACITY

\* ---------------------------------------------------------------------
\* C3: a successful grow_stats_buffer from a full state (wrapped or not)
\* keeps count, sum, sum_sq and the live values in order, and leaves
\* head = 0, tail = count and the live values at physical 0 .. count-1.
\* ---------------------------------------------------------------------
C3_GrowKeepsLogicalOrder ==
    (phase = "active" /\ ctx.values # NULLPTR /\ ctx.count = ctx.capacity) =>
        LET g == grow_stats_buffer(ctx, heap, TRUE)
        IN  /\ g.rc = "SQLITE_OK"
            /\ g.d.count = ctx.count
            /\ g.d.sum = ctx.sum
            /\ g.d.sum_sq = ctx.sum_sq
            /\ LiveCells(g.d, g.heap) = LiveCells(ctx, heap)
            /\ g.d.head = 0
            /\ g.d.tail = ctx.count
            /\ \A i \in 0..(ctx.count - 1) :
                  g.heap[g.d.values].cells[i + 1] = LiveCells(ctx, heap)[i + 1]

\* A full buffer whose oldest value is not at physical index 0, which
\* growing moves to index 0 of a new block.
C3_Witness ==
    /\ phase = "active"
    /\ ctx.values # NULLPTR
    /\ ctx.count = ctx.capacity
    /\ ctx.head > 0
    /\ LET g == grow_stats_buffer(ctx, heap, TRUE)
       IN  /\ g.d.values # ctx.values
           /\ g.d.head = 0
           /\ g.heap[g.d.values].cells[1] = LiveCells(ctx, heap)[1]

\* ---------------------------------------------------------------------
\* C4: the slot an insert writes is not one of the live slots: with the
\* struct as add_to_circular_buffer received it (count one less, tail one
\* back), tail is none of the positions (head + i) mod capacity, i < count.
\* ---------------------------------------------------------------------
C4_InsertWritesFreeSlot ==
    [][Stored =>
         LET written == (ctx'.tail + ctx'.capacity - 1) % ctx'.capacity
         IN  \A i \in 0..(ctx'.count - 2) : LivePos(ctx', i) # written]_vars

\* An insert into a buffer whose live region wraps, with one free slot.
C4_Witness ==
    /\ out.op = "step" /\ out.done
    /\ ctx.count = ctx.capacity
    /\ ctx.head > 0

\* ---------------------------------------------------------------------
\* C5 as stated: capacity never decreases, and it increases in a step
\* exactly when that step inserts a non-NULL numeric value while count
\* equals capacity; evicts, queries, NULL steps and rejected steps never
\* change it.  (Steps that report out-of-memory are left aside here: the
\* statement does not speak of them.)
\* ---------------------------------------------------------------------
C5_GrowthOnlyOnFullInsert ==
    [][(phase' = "active" /\ out'.rc # "SQLITE_NOMEM") =>
         /\ ctx'.capacity >= ctx.capacity
         /\ (ctx'.capacity > ctx.capacity) <=>
               /\ Stored
               /\ out'.type \in NumericTypes
               /\ ctx.count = ctx.capacity]_vars

\* C5 as the code has it: capacity never decreases, and it
\* increases exactly (a) in the first step call with one argument that
\* obtains the context while no buffer is held and capacity is 0, whatever
\* the argument's type and whether or not the allocation succeeds, and
\* (b) in a step that stores a numeric value when a buffer is held and
\* count equals capacity.
C5_CapacityChangesOnlyInInitOrGrowth ==
    [][phase' = "active" =>
         /\ ctx'.capacity >= ctx.capacity
         /\ (ctx'.capacity > ctx.capacity) <=>
               \/ /\ Did("step") /\ out'.argc = 1 /\ has_ctx'
                  /\ ctx.values = NULLPTR /\ ctx.capacity = 0
               \/ /\ Stored /\ out'.type \in NumericTypes
                  /\ ctx.values # NULLPTR
                  /\ ctx.count = ctx.capacity]_vars

\* A step has just grown a full buffer.
C5_Witness ==
    /\ out.op = "step" /\ out.done
    /\ ctx.capacity = INITIAL_CAPACITY * CAPACITY_GROWTH_FACTOR
    /\ ctx.count = INITIAL_CAPACITY + 1

\* ---------------------------------------------------------------------
\* C6: a step whose growth allocation fails reports out-of-memory and
\* leaves the struct and the buffer exactly as they were.
\* ---------------------------------------------------------------------
C6_FailedGrowthChangesNothing ==
    [][(Did("step") /\ out'.rc = "SQLITE_NOMEM" /\ ctx.values # NULLPTR) =>
         /\ ~out'.done
         /\ ctx' = ctx
         /\ heap' = heap
         /\ has_ctx' = has_ctx]_vars

\* A growth has just failed on a full, wrapped buffer.
C6_Witness ==
    /\ out.op = "step" /\ out.rc = "SQLITE_NOMEM"
    /\ ctx.values # NULLPTR
    /\ ctx.count = ctx.capacity
    /\ ctx.head > 0

\* ---------------------------------------------------------------------
\* C7: after a step whose initial buffer allocation failed the
\* accumulator is in its prior empty state: no buffer, capacity 0, and
\* count, head, tail, sum and sum_sq unchanged (all 0).
\* ---------------------------------------------------------------------
C7_FailedInitKeepsEmptyState ==
    (out.op = "step" /\ out.rc = "SQLITE_NOMEM" /\ ctx.values = NULLPTR) =>
        ctx = ZeroCtx

\* ---------------------------------------------------------------------
\* C8: every buffer allocated is released exactly once: none is freed
\* twice, and none is still allocated once the aggregation has ended and
\* the destroy hook has run.
\* ---------------------------------------------------------------------
C8_EveryBufferReleasedOnce ==
    /\ \A p \in 1..Len(heap) : heap[p].frees <= 1
    /\ phase = "closed" => \A p \in 1..Len(heap) : heap[p].frees = 1

\* ---------------------------------------------------------------------
\* C9: a value or final callback of a sample statistic called with
\* count < 2, or of a population statistic with count < 1, gives NULL and
\* the calculation gives NaN; with count at or above the threshold the
\* callback gives what the calculation yields, which is then a number.
\* ---------------------------------------------------------------------
C9_Threshold(fn) ==
    IF fn \in {"variance_samp", "stddev_samp"} THEN 2 ELSE 1

C9_UndefinedBelowThreshold ==
    [][(Did("value") \/ Did("final")) =>
         LET calc == StatFunc("exact", out'.fn, ctx)
         IN  /\ ctx.count < C9_Threshold(out'.fn) =>
                   isnan(calc) /\ out'.res = SqlNull
             /\ ctx.count >= C9_Threshold(out'.fn) =>
                   ~isnan(calc) /\ out'.res = calc]_vars

\* A sample variance asked for with one value stored.
C9_Witness ==
    /\ out.op = "value" /\ out.fn = "variance_samp" /\ out.res = SqlNull
    /\ ctx.count = 1

\* ---------------------------------------------------------------------
\* C10: as long as nothing was evicted, the population variance the code
\* computes, sum_sq/count - (sum/count)^2, is the textbook population
\* variance of the values inserted.
\* ---------------------------------------------------------------------
C10_VariancePopIsTextbook ==
    (phase = "active" /\ nevict = 0 /\ ctx.count >= 1) =>
        calculate_variance_population("exact", ctx)
            = TextbookVariance(LiveValues(ctx, heap))

\* Three or more values, not all equal, none evicted.
C10_Witness ==
    /\ phase = "active" /\ nevict = 0
    /\ ctx.count >= 3
    /\ calculate_variance_population("exact", ctx).num > 0

\* ---------------------------------------------------------------------
\* C11: in every reachable state the population variance is >= 0 when
\* count >= 1 and the sample variance is >= 0 when count >= 2, after any
\* inserts and evicts of finite values.
\* ---------------------------------------------------------------------
C11_VarianceNonNegative ==
    phase = "active" =>
        /\ ctx.count >= 1 =>
               NonNegative(calculate_variance_population(win.ar, ctx))
        /\ ctx.count >= 2 =>
               NonNegative(calculate_variance_sample(win.ar, ctx))

\* ---------------------------------------------------------------------
\* C12: whenever all live values are identical the population variance
\* (count >= 1) and the sample variance (count >= 2) evaluate to 0, not to
\* a negative number, and so do both standard deviations; with a single
\* value the sample variance is undefined.  In binary64 "evaluates to 0"
\* is read with a tolerance: 0 <= x < 2^-20.
\* ---------------------------------------------------------------------
C12_AllSame(s) == \A i, j \in 1..Len(s) : s[i] = s[j]

C12_Nothing(x) ==
    /\ NonNegative(x)
    /\ IF x.kind = "f64"
       THEN x.m = <<>> \/ BBitLen(x.m) + x.e <= -20
       ELSE x.kind = "num" /\ x.num = 0

C12_RootOfNothing(x) ==
    /\ x.kind = "sqrt"
    /\ IF "arg" \in DOMAIN x
       THEN C12_Nothing(x.arg)
       ELSE x.num = 0

C12_ConstantValuesHaveNoSpread ==
    (/\ phase = "active" /\ ctx.count >= 1
     /\ C12_AllSame(LiveValues(ctx, heap))) =>
        /\ C12_Nothing(calculate_variance_population(win.ar, ctx))
        /\ C12_RootOfNothing(calculate_stddev_population(win.ar, ctx))
        /\ ctx.count = 1 => isnan(calculate_variance_sample(win.ar, ctx))
        /\ ctx.count >= 2 =>
               /\ C12_Nothing(calculate_variance_sample(win.ar, ctx))
               /\ C12_RootOfNothing(calculate_stddev_sample(win.ar, ctx))

\* ---------------------------------------------------------------------
\* C13: the README's example.  All ten rows 10, 12, 15, 13, 18, 20, 22,
\* 25, 23, 28 are in the frame, none has left.
\* ---------------------------------------------------------------------
C13_ReadmeRowsStored ==
    /\ phase = "active"
    /\ win.rows = ReadmeRows
    /\ win.entered = Len(ReadmeRows)
    /\ win.left = 0

\* The fraction x is within 0.01 of c / 100.
C13_Near(x, c) ==
    /\ x.kind = "num"
    /\ Abs(x.num * 100 - c * x.den) <= x.den

\* The root x = sqrt(num / den) is within 0.01 of c / 1000.
C13_RootNear(x, c) ==
    /\ x.kind = "sqrt"
    /\ (c - 10) * (c - 10) * x.den <= x.num * 1000000
    /\ x.num * 1000000 <= (c + 10) * (c + 10) * x.den

\* C13 as stated: after these ten inserts the population variance is
\* within 0.01 of 31.36, the sample variance of 34.84, the population
\* standard deviation of 5.600 and the sample standard deviation of 5.903.
C13_ReadmeExampleAsStated ==
    C13_ReadmeRowsStored =>
        /\ C13_Near(calculate_variance_population(win.ar, ctx), 3136)
        /\ C13_Near(calculate_variance_sample(win.ar, ctx), 3484)
        /\ C13_RootNear(calculate_stddev_population(win.ar, ctx), 5600)
        /\ C13_RootNear(calculate_stddev_sample(win.ar, ctx), 5903)

\* C13 with the values the code computes: after these ten inserts the
\* population variance is within 0.01 of 32.44, the sample variance of
\* 36.04, the population standard deviation of 5.696 and the sample
\* standard deviation of 6.004.
C13_ReadmeExample ==
    C13_ReadmeRowsStored =>
        /\ C13_Near(calculate_variance_population(win.ar, ctx), 3244)
        /\ C13_Near(calculate_variance_sample(win.ar, ctx), 3604)
        /\ C13_RootNear(calculate_stddev_population(win.ar, ctx), 5696)
        /\ C13_RootNear(calculate_stddev_sample(win.ar, ctx), 6004)

\* The sample standard deviation of the ten rows has just been given.
C13_Witness ==
    /\ C13_ReadmeRowsStored
    /\ ctx.count = 10 /\ ctx.sum = 186 /\ ctx.sum_sq = 3784
    /\ out.op = "value" /\ out.fn = "stddev_samp"
    /\ out.res = calculate_stddev_sample(win.ar, ctx)

\* ---------------------------------------------------------------------
\* C14: a single value inserted into an empty accumulator and then
\* evicted leaves count = 0, sum = 0 and sum_sq = 0, with head and tail
\* equal again, for every value.
\* ---------------------------------------------------------------------
C14_InsertThenEvictRestoresEmpty ==
    (/\ phase = "active"
     /\ win.entered = 1 /\ win.left = 1
     /\ win.rows[1].type \in NumericTypes) =>
        /\ ctx.count = 0
        /\ ctx.sum = Zero(win.ar)
        /\ ctx.sum_sq = Zero(win.ar)
        /\ ctx.head = ctx.tail

\* ---------------------------------------------------------------------
\* C15: xInverse on an accumulator with count = 0, or without a buffer
\* (or without a context), does nothing: count does not go below 0, and
\* head, tail, sum and sum_sq stay as they are.  A value is taken from
\* the buffer only when count > 0, so the 0.0 that
\* remove_from_circular_buffer returns for an empty buffer is never
\* subtracted from the sums.
\* ---------------------------------------------------------------------
C15_NothingToEvict == ~has_ctx \/ ctx.values = NULLPTR \/ ctx.count = 0

C15_EvictOnEmptyIsNoOp ==
    [][Did("inverse") =>
          /\ ctx'.count >= 0
          /\ C15_NothingToEvict =>
                 /\ ~out'.done
                 /\ ctx'.count = ctx.count
                 /\ ctx'.head = ctx.head /\ ctx'.tail = ctx.tail
                 /\ ctx'.sum = ctx.sum /\ ctx'.sum_sq = ctx.sum_sq
          /\ out'.done =>
                 /\ ctx.count > 0
                 /\ ctx'.count = ctx.count - 1]_vars

\* A numeric row has just been evicted from an accumulator that rows had
\* entered and left before, and that was empty: nothing was removed.
C15_Witness ==
    /\ out.op = "inverse" /\ out.type \in NumericTypes /\ ~out.done
    /\ has_ctx /\ ctx.values # NULLPTR /\ ctx.count = 0
    /\ nrows >= 1 /\ nevict = nrows

\* ---------------------------------------------------------------------
\* C16: an xStep and an xInverse whose argument is NULL leave count,
\* head, tail, sum, sum_sq and the live values as they are.
\* ---------------------------------------------------------------------
C16_SameAccumulation ==
    /\ ctx'.count = ctx.count
    /\ ctx'.head = ctx.head /\ ctx'.tail = ctx.tail
    /\ ctx'.sum = ctx.sum /\ ctx'.sum_sq = ctx.sum_sq
    /\ LiveCells(ctx', heap') = LiveCells(ctx, heap)

C16_NullRowsChangeNothing ==
    [][((Did("step") \/ Did("inverse")) /\ out'.type = "SQLITE_NULL") =>
          /\ ~out'.done
          /\ C16_SameAccumulation]_vars

\* A NULL row has just left a frame that holds values: none was removed.
C16_Witness ==
    /\ out.op = "inverse" /\ out.type = "SQLITE_NULL" /\ ~out.done
    /\ has_ctx /\ ctx.values # NULLPTR /\ ctx.count >= 1

\* ---------------------------------------------------------------------
\* C17: an xStep called with an argument count other than 1, or with a
\* value that is neither NULL, INTEGER nor FLOAT, reports an error and
\* leaves count, head, tail, sum, sum_sq and the live values as they are.
\* ---------------------------------------------------------------------
C17_BadArgument ==
    \/ out'.argc # 1
    \/ out'.type \notin NumericTypes \cup {"SQLITE_NULL"}

C17_BadArgumentsAreRejected ==
    [][(Did("step") /\ C17_BadArgument) =>
          /\ out'.rc # "SQLITE_OK"
          /\ ~out'.done
          /\ ctx'.count = ctx.count
          /\ ctx'.head = ctx.head /\ ctx'.tail = ctx.tail
          /\ ctx'.sum = ctx.sum /\ ctx'.sum_sq = ctx.sum_sq
          /\ LiveCells(ctx', heap') = LiveCells(ctx, heap)]_vars

\* A text value has just been refused by an accumulator that holds
\* values.
C17_Witness ==
    /\ out.op = "step" /\ out.argc = 1 /\ out.type = "SQLITE_TEXT"
    /\ out.rc = "SQLITE_ERROR" /\ ~out.done
    /\ ctx.count >= 1

\* ---------------------------------------------------------------------
\* C18: what xValue and xFinal of the four statistics deliver is never
\* NaN nor an infinity: when the computed value is NaN or infinite the
\* result is NULL, otherwise it is the computed double unchanged.
\* ---------------------------------------------------------------------
C18_Computes(fn) ==
    has_ctx /\ ctx.values # NULLPTR /\ ctx.count >= StatMinCount(fn)

C18_ResultIsFiniteOrNull ==
    [][(Did("value") \/ Did("final")) =>
          /\ ~isnan(out'.res)
          /\ ~isinf(out'.res)
          /\ C18_Computes(out'.fn) =>
                 LET computed == StatFunc(win.ar, out'.fn, ctx)
                 IN  out'.res = IF isnan(computed) \/ isinf(computed)
                                THEN SqlNull
                                ELSE computed]_vars

\* The population variance of 2^600 and -2^600 computes as +Infinity and
\* has just been delivered as NULL.
C18_Witness ==
    /\ out.op = "value" /\ out.fn = "variance_pop"
    /\ C18_Computes("variance_pop")
    /\ isinf(calculate_variance_population(win.ar, ctx))
    /\ out.res = SqlNull

\* ---------------------------------------------------------------------
\* C19: under the window driver the value xInverse removes is the value
\* of the row that leaves, and after every callback the live values are
\* the values of the non-NULL rows of the frame, oldest first, whatever
\* the mix of NULL and numeric rows.
\* ---------------------------------------------------------------------
\* The non-NULL rows of the frame of w, oldest first
C19_FrameRows(w) ==
    SelectSeq(SubSeq(w.rows, w.left + 1, w.entered),
              LAMBDA row : row.type # "SQLITE_NULL")

C19_FrameCells(w) ==
    LET f == C19_FrameRows(w)
    IN  [i \in 1..Len(f) |-> <<f[i].val>>]

C19_BufferFollowsFrame ==
    [][/\ phase' = "active" => LiveCells(ctx', heap') = C19_FrameCells(win')
       /\ Removed => out'.val = win.rows[win.left + 1].val]_vars

\* A NULL row and then a numeric row have left the frame, and the frame
\* still holds a value: what was removed is the numeric row's value.
C19_Witness ==
    /\ phase = "active"
    /\ out.op = "inverse" /\ out.done
    /\ win.left >= 2
    /\ win.rows[win.left - 1].type = "SQLITE_NULL"
    /\ out.val = win.rows[win.left].val
    /\ ctx.count >= 1
    /\ LiveCells(ctx, heap) = C19_FrameCells(win)

\* ---------------------------------------------------------------------
\* C20: an allocation failure, of the first buffer or of a grown one,
\* leaves the accumulator usable.  The failed xStep stores nothing and
\* does not allocate again.  From then on xValue and xFinal answer from
\* the values that are held, xInverse removes the oldest of them, and an
\* xStep whose allocation succeeds stores its value; the sums match the
\* live values, the order is first in first out and count <= capacity.
\* ---------------------------------------------------------------------
C20_Consistent(d, h) ==
    LET cells == LiveCells(d, h)
        live == [i \in 1..Len(cells) |-> cells[i][1]]
    IN  /\ AllWritten(cells)
        /\ Len(cells) = d.count
        /\ d.count <= d.capacity
        /\ d.sum = SeqSum(live)
        /\ d.sum_sq = SeqSum(Squares(live))

\* The statistic fn of the accumulator, as a callback delivers it; the
\* sums it is computed from are those of the live values when the
\* accumulator is consistent.
C20_Answer(fn) ==
    IF has_ctx /\ ctx.values # NULLPTR /\ ctx.count >= StatMinCount(fn)
    THEN set_result(StatFunc("exact", fn, ctx))
    ELSE SqlNull

C20_UsableAfterFailedAllocation ==
    /\ []((nomem # "none" /\ phase = "active") =>
             C20_Consistent(ctx, heap))
    /\ [][/\ (Did("step") /\ out'.rc = "SQLITE_NOMEM") =>
                /\ ~out'.done
                /\ C16_SameAccumulation
                /\ Len(heap') = Len(heap)
          /\ nomem # "none" =>
                /\ (Did("value") \/ Did("final")) =>
                       out'.res = C20_Answer(out'.fn)
                /\ Removed =>
                       /\ LiveCells(ctx, heap) # <<>>
                       /\ <<out'.val>> = Head(LiveCells(ctx, heap))
                       /\ LiveCells(ctx', heap') =
                              Tail(LiveCells(ctx, heap))
                /\ Stored =>
                       LiveCells(ctx', heap') =
                           Append(LiveCells(ctx, heap), <<out'.val>>)]_vars

\* The growth of a full buffer failed, and a later xStep has grown the
\* buffer and stored its value.
C20_Witness ==
    /\ nomem = "growth"
    /\ out.op = "step" /\ out.done
    /\ Len(heap) = 2
    /\ ctx.capacity = INITIAL_CAPACITY * CAPACITY_GROWTH_FACTOR
    /\ ctx.count = INITIAL_CAPACITY + 1

\* ---------------------------------------------------------------------
\* C21: the xValue and xFinal callbacks of the four statistics leave
\* every field of the accumulator as it is and release no buffer, so a
\* query does not change what later queries give; and on the same state
\* xValue and xFinal give the same result.
\* ---------------------------------------------------------------------
C21_QueriesChangeNothing ==
    [][/\ Did("value") =>
             /\ ctx' = ctx /\ has_ctx' = has_ctx
             /\ heap' = heap
       /\ Did("final") => heap' = heap
       /\ (Did("value") \/ Did("final")) =>
             /\ out'.res = stats_value_helper("exact", has_ctx, ctx, out'.fn,
                                              StatMinCount(out'.fn))
             /\ out'.res = stats_final_helper("exact", has_ctx, ctx, out'.fn,
                                              StatMinCount(out'.fn))]_vars

\* xFinal has just given the sample standard deviation of an accumulator
\* that values entered and left; its buffer has not been released.
C21_Witness ==
    /\ out.op = "final" /\ out.fn = "stddev_samp"
    /\ out.res.kind = "sqrt"
    /\ nrows >= 2 /\ nevict >= 1
    /\ Len(heap) >= 1
    /\ heap[Len(heap)].frees = 0

\* ---------------------------------------------------------------------
\* C22: the first buffer has capacity INITIAL_CAPACITY and every growth
\* that succeeds doubles the capacity: while a buffer is held, capacity
\* is INITIAL_CAPACITY * 2^k after k growths.  A growth never starts
\* from capacity 0.
\* ---------------------------------------------------------------------
\* The growths that have succeeded: every block but the first.
C22_Growths == Len(heap) - 1

C22_CapacityDoubles ==
    /\ [](ctx.values # NULLPTR =>
             ctx.capacity =
                 INITIAL_CAPACITY * CAPACITY_GROWTH_FACTOR ^ C22_Growths)
    /\ [][/\ (ctx.values = NULLPTR /\ ctx'.values # NULLPTR) =>
                ctx'.capacity = INITIAL_CAPACITY
          /\ (ctx.values # NULLPTR /\ ctx'.values # ctx.values
                 /\ phase' = "active") =>
                /\ ctx.capacity > 0
                /\ ctx'.capacity = ctx.capacity * CAPACITY_GROWTH_FACTOR
                /\ Len(heap') = Len(heap) + 1]_vars

\* The buffer has grown twice, and values were evicted along the way.
C22_Witness ==
    /\ ctx.values # NULLPTR
    /\ C22_Growths = 2
    /\ ctx.capacity =
           INITIAL_CAPACITY * CAPACITY_GROWTH_FACTOR * CAPACITY_GROWTH_FACTOR
    /\ nevict >= 1

\* ---------------------------------------------------------------------
\* C23: in every reachable state in which a buffer is held the ring is
\* well formed: 0 <= count <= capacity, head < capacity, tail < capacity
\* and tail = (head + count) mod capacity.
\* ---------------------------------------------------------------------
C23_RingWellFormed ==
    ctx.values # NULLPTR =>
        /\ 0 <= ctx.count /\ ctx.count <= ctx.capacity
        /\ 0 <= ctx.head /\ ctx.head < ctx.capacity
        /\ 0 <= ctx.tail /\ ctx.tail < ctx.capacity
        /\ ctx.tail = (ctx.head + ctx.count) % ctx.capacity

\* A value has just been stored in the last free cell of a buffer whose
\* head is not at index 0: the buffer is full and tail has met head.
C23_Witness ==
    /\ out.op = "step" /\ out.done
    /\ ctx.values # NULLPTR
    /\ ctx.count = ctx.capacity
    /\ ctx.head > 0
    /\ ctx.tail = ctx.head

\* ---------------------------------------------------------------------
\* C24: an index is taken modulo capacity, and values[...] is read or
\* written, only while a buffer is held and capacity > 0, on every call
\* path, those after a failed first allocation included.
\* ---------------------------------------------------------------------
\* d holds a buffer of d.capacity > 0 cells.
C24_BufferHeld(d, h) ==
    /\ d.values # NULLPTR
    /\ d.capacity > 0
    /\ d.values \in 1..Len(h)
    /\ Len(h[d.values].cells) = d.capacity

\* add_to_circular_buffer has written values[tail] of the struct it
\* leaves; remove_from_circular_buffer has read values[head] of the
\* struct it was given; grow_stats_buffer, which has put a new block in
\* place of one holding values, has read these through
\* get_circular_value from the struct it was given.  Without a buffer,
\* xInverse and xValue touch neither the struct nor the heap.
C24_AccessOnlyToHeldBuffer ==
    [][/\ Stored => C24_BufferHeld(ctx', heap')
       /\ Removed => C24_BufferHeld(ctx, heap)
       /\ (Did("step") /\ Len(heap') > Len(heap) /\ ctx.count > 0) =>
             C24_BufferHeld(ctx, heap)
       /\ (ctx.values = NULLPTR /\ (Did("inverse") \/ Did("value")))
             => ctx' = ctx /\ heap' = heap]_vars

\* The first allocation has failed, and an xInverse for a numeric row
\* has then found no buffer and touched nothing.
C24_Witness ==
    /\ nomem = "init"
    /\ has_ctx /\ ctx.values = NULLPTR /\ ctx.capacity = INITIAL_CAPACITY
    /\ out.op = "inverse" /\ out.type \in NumericTypes /\ ~out.done

====
